---- MODULE Spec2Model ----
(***************************************************************************)
(* The storefront backend of src/main.py: the catalog seeder and           *)
(* GET /api/products, POST /api/leads with its spreadsheet mirror, and     *)
(* POST /api/checkout/create-session, over the document store whose        *)
(* contract is section 4.1 of the specification (database.py is imported   *)
(* by main.py and is not among the source files).                          *)
(*                                                                         *)
(* An identifier string is the number its ObjectId prints as; a request    *)
(* handled, or a value that may be missing, is a sequence of length 0 or   *)
(* 1; a URL is the tuple of its prefix and the text formatted into it.     *)
(***************************************************************************)
EXTENDS Integers, Sequences, FiniteSets, TLC

VARIABLES
    product,    \* the "product" collection: a sequence of documents
    order,      \* the "order" collection
    lead,       \* the "lead" collection
    sheet,      \* the rows of the external spreadsheet
    listing,    \* the last GET /api/products request handled, if any
    session,    \* the POST /api/checkout/create-session request handled, if any
    leadResp,   \* the last POST /api/leads request handled, if any
    worker,     \* concurrent GET /api/products requests: each one's position
    storeFault  \* whether an insert of a concurrent seeder has raised

vars == <<product, order, lead, sheet, listing, session, leadResp, worker, storeFault>>

(************************* bounds of the model *****************************)
MaxItems == 2       \* line items of a cart
MaxLeads == 2       \* lead records persisted
NumWorkers == 2     \* concurrent GET /api/products requests

(*************************** program constants *****************************)
CitrusBloomPrice == 5900
AmberDuskPrice == 7200
VerdantMistPrice == 6400
MinQuantity == 1

\* Python's None (str(None) is the string "None")
None == "<None>"

\* The quantities a cart may carry: the values around the clamp threshold.
Quantities == (MinQuantity - 2)..(MinQuantity + 1)

Range(s) == {s[i] : i \in DOMAIN s}

(***************************** document store *****************************)
ObjectId(n) == [oid |-> n]
Str(id) == id.oid

\* create(collection, record) -> id: the record is stored under a fresh
\* identifier, which is returned as a string.
InsertedId(collection) == Str(ObjectId(Len(collection) + 1))
CreateDocument(collection, record) ==
    Append(collection, ("_id" :> ObjectId(Len(collection) + 1)) @@ record)

\* query(collection, {}, limit): the records, each carrying its identifier.
GetDocuments(collection) == collection
GetDocumentsLimit(collection, limit) ==
    SubSeq(collection, 1, IF Len(collection) < limit THEN Len(collection) ELSE limit)

(****************************** seed data **********************************)
samples ==
    << [title |-> "Citrus Bloom", price_cents |-> CitrusBloomPrice, currency |-> "usd"],
       [title |-> "Amber Dusk", price_cents |-> AmberDuskPrice, currency |-> "usd"],
       [title |-> "Verdant Mist", price_cents |-> VerdantMistPrice, currency |-> "usd"] >>

\* The inserts of the seeding loop from sample i on; ok is the set of the
\* samples whose insert does not raise (a raise is passed over).
RECURSIVE InsertSamples(_, _, _)
InsertSamples(collection, i, ok) ==
    IF i > Len(samples) THEN collection
    ELSE InsertSamples(IF i \in ok THEN CreateDocument(collection, samples[i])
                       ELSE collection,
                       i + 1, ok)

\* ensure_sample_products: check is "ok" or "raise" (the existence query).
SeedOnError(collection) == [product |-> collection, raised |-> FALSE, existing |-> "error"]
\* SeedOnExisting without the early return: the samples are inserted again.
SeedOnExistingAgain(collection) ==
    [product |-> InsertSamples(collection, 1, 1..Len(samples)), raised |-> FALSE,
     existing |-> "found"]
SeedOnExisting(collection) == [product |-> collection, raised |-> FALSE, existing |-> "found"]
ensure_sample_products(collection, check, ok) ==
    IF check = "raise" THEN SeedOnError(collection)
    ELSE IF GetDocumentsLimit(collection, 1) # <<>> THEN SeedOnExisting(collection)
    ELSE [product |-> InsertSamples(collection, 1, ok), raised |-> FALSE,
          existing |-> "empty"]

\* _id becomes id in each product of the response.
WithId(p) ==
    [k \in (DOMAIN p \ {"_id"}) \cup {"id"} |-> IF k = "id" THEN Str(p["_id"]) ELSE p[k]]

\* The response: read is "ok" or "raise" (the query for the catalog).
ListResponse(collection, read) ==
    IF read = "raise" THEN [status |-> 500, products |-> <<>>]
    ELSE [status |-> 200,
          products |-> [i \in DOMAIN GetDocuments(collection) |->
                           WithId(GetDocuments(collection)[i])]]

\* GET /api/products, handled alone: the seeder runs, then the catalog is
\* read for the response. listing keeps what the seeder met, the catalog it
\* started from and the response.
Listed(before, seeded, read) ==
    << [before |-> before, existing |-> seeded.existing, raised |-> seeded.raised,
        resp |-> IF seeded.raised THEN [status |-> 500, products |-> <<>>]
                 ELSE ListResponse(seeded.product, read)] >>

list_products ==
    \/ /\ product' = ensure_sample_products(product, "raise", {}).product
       /\ \E read \in {"ok", "raise"} :
            listing' = Listed(product, ensure_sample_products(product, "raise", {}), read)
       /\ UNCHANGED <<order, lead, sheet, session, leadResp, worker, storeFault>>
    \/ /\ product # <<>>
       /\ product' = ensure_sample_products(product, "ok", {}).product
       /\ \E read \in {"ok", "raise"} :
            listing' = Listed(product, ensure_sample_products(product, "ok", {}), read)
       /\ UNCHANGED <<order, lead, sheet, session, leadResp, worker, storeFault>>
    \/ /\ product = <<>>
       /\ \E ok \in SUBSET (1..Len(samples)), read \in {"ok", "raise"} :
            /\ product' = ensure_sample_products(product, "ok", ok).product
            /\ listing' = Listed(product, ensure_sample_products(product, "ok", ok), read)
       /\ UNCHANGED <<order, lead, sheet, session, leadResp, worker, storeFault>>

(******************* GET /api/products, concurrently ***********************)
\* Each worker handles GET /api/products requests one after the other; a
\* step is one call on the store. pc is the call the worker is about to
\* make: the existence check, the insert of sample i, the read of the catalog.
Workers == 1..NumWorkers

SeedCheck(w) ==
    /\ worker[w].pc = "check"
    /\ \/ worker' = [worker EXCEPT ![w] = [pc |-> "read", i |-> 1]]      \* it raises
       \/ /\ GetDocumentsLimit(product, 1) # <<>>
          /\ worker' = [worker EXCEPT ![w] = [pc |-> "read", i |-> 1]]
       \/ /\ GetDocumentsLimit(product, 1) = <<>>
          /\ worker' = [worker EXCEPT ![w] = [pc |-> "insert", i |-> 1]]
    /\ UNCHANGED <<product, order, lead, sheet, listing, session, leadResp, storeFault>>

AfterInsert(w) ==
    IF worker[w].i = Len(samples) THEN [pc |-> "read", i |-> 1]
    ELSE [pc |-> "insert", i |-> worker[w].i + 1]

SeedInsert(w) ==
    /\ worker[w].pc = "insert"
    /\ \/ /\ product' = CreateDocument(product, samples[worker[w].i])
          /\ UNCHANGED storeFault
       \/ /\ storeFault' = TRUE                                          \* it raises
          /\ UNCHANGED product
    /\ worker' = [worker EXCEPT ![w] = AfterInsert(w)]
    /\ UNCHANGED <<order, lead, sheet, listing, session, leadResp>>

ListRead(w) ==
    /\ worker[w].pc = "read"
    /\ worker' = [worker EXCEPT ![w] = [pc |-> "check", i |-> 1]]
    /\ UNCHANGED <<product, order, lead, sheet, listing, session, leadResp, storeFault>>

(******************************* checkout **********************************)
\* The product identifiers a cart may name: those the store has given to
\* the products of the catalog, and one it has given to none.
ProductIds(products) == 1..(Len(products) + 1)

CheckoutItem(products) == [product_id : ProductIds(products), quantity : Quantities]
CheckoutRequest(products) ==
    [items : UNION {[1..n -> CheckoutItem(products)] : n \in 0..MaxItems},
     customer_email : {None}]

Truthy(s) == s \notin {None, ""}

\* by_id: the last document of each identifier.
ById(products) ==
    [pid \in {Str(products[i]["_id"]) : i \in DOMAIN products} |->
        products[CHOOSE i \in DOMAIN products :
                    /\ Str(products[i]["_id"]) = pid
                    /\ \A j \in DOMAIN products : Str(products[j]["_id"]) = pid => j <= i]]

\* max(1, it.quantity)
Qty(it) == IF it.quantity > MinQuantity THEN it.quantity ELSE MinQuantity

\* int(prod.get("price_cents") or 0)
PriceCents(prod) == IF "price_cents" \in DOMAIN prod THEN prod["price_cents"] ELSE 0

\* The pricing loop over payload.items.
RECURSIVE PriceItems(_, _, _)
PriceItems(items, by_id, amount_total) ==
    IF items = <<>> THEN [found |-> TRUE, amount_total |-> amount_total]
    ELSE LET it == Head(items)
         IN  IF it.product_id \notin DOMAIN by_id
             THEN [found |-> FALSE, product_id |-> it.product_id]
             ELSE PriceItems(Tail(items), by_id,
                             amount_total + PriceCents(by_id[it.product_id]) * Qty(it))

\* sum([it.quantity for it in payload.items])
RECURSIVE SumQuantity(_)
SumQuantity(items) ==
    IF items = <<>> THEN 0 ELSE Head(items).quantity + SumQuantity(Tail(items))

OrderQuantity(items) == SumQuantity(items)

NewOrder(payload, amount_total) ==
    [product_id |-> payload.items[1].product_id,
     quantity |-> OrderQuantity(payload.items),
     amount_total_cents |-> amount_total,
     currency |-> "usd",
     customer_email |-> payload.customer_email,
     status |-> "created"]

\* The field constraints of the Order schema.
OrderValid(o) == o.quantity >= 1 /\ o.amount_total_cents >= 0

RECURSIVE StripeLineItems(_, _)
StripeLineItems(items, by_id) ==
    IF items = <<>> THEN <<>>
    ELSE LET it == Head(items)
             prod == by_id[it.product_id]
         IN  << [currency |-> prod["currency"], name |-> prod["title"],
                 unit_amount |-> PriceCents(prod), quantity |-> Qty(it)] >>
             \o StripeLineItems(Tail(items), by_id)

MockResponse(order_id) ==
    [status |-> 200,
     checkout_url |-> <<"https://checkout.mock/", order_id>>,
     order_id |-> order_id,
     note |-> "Stripe not configured; using mock checkout URL."]

StripeResponse(order_id) ==
    [status |-> 200,
     checkout_url |-> <<"https://checkout.stripe.com/", "session">>,
     order_id |-> order_id]

\* AfterPersist with the provider's error left to propagate.
AfterPersistRaises(payload, env, by_id, orders, order_id) ==
    IF Truthy(env.stripe_key) /\ env.stripe = "raise"
    THEN [resp |-> [status |-> 500, detail |-> "StripeError"], order |-> orders,
          calls |-> <<"get_documents", "create_document", "stripe.checkout.Session.create">>,
          line_items |-> <<>>]
    ELSE IF Truthy(env.stripe_key) /\ env.stripe = "ok"
    THEN [resp |-> StripeResponse(order_id), order |-> orders,
          calls |-> <<"get_documents", "create_document", "stripe.checkout.Session.create">>,
          line_items |-> StripeLineItems(payload.items, by_id)]
    ELSE [resp |-> MockResponse(order_id), order |-> orders,
          calls |-> <<"get_documents", "create_document">>, line_items |-> <<>>]

\* What the handler does once the Order is persisted under order_id.
AfterPersist(payload, env, by_id, orders, order_id) ==
    IF Truthy(env.stripe_key) /\ env.stripe = "ok"
    THEN [resp |-> StripeResponse(order_id), order |-> orders,
          calls |-> <<"get_documents", "create_document", "stripe.checkout.Session.create">>,
          line_items |-> StripeLineItems(payload.items, by_id)]
    ELSE [resp |-> MockResponse(order_id), order |-> orders,
          calls |-> IF Truthy(env.stripe_key) /\ env.stripe = "raise"
                    THEN <<"get_documents", "create_document",
                           "stripe.checkout.Session.create">>
                    ELSE <<"get_documents", "create_document">>,
          line_items |-> <<>>]

\* PersistOrder with the insert's error passed over.
PersistOrderSwallow(payload, env, by_id, amount_total, orders) ==
    IF ~OrderValid(NewOrder(payload, amount_total))
    THEN [resp |-> [status |-> 500, detail |-> "ValidationError"], order |-> orders,
          calls |-> <<"get_documents">>, line_items |-> <<>>]
    ELSE AfterPersist(payload, env, by_id,
                      IF env.store = "insert raises" THEN orders
                      ELSE CreateDocument(orders, NewOrder(payload, amount_total)),
                      InsertedId(orders))

\* The Order is built and persisted, then the provider is tried.
PersistOrder(payload, env, by_id, amount_total, orders) ==
    IF ~OrderValid(NewOrder(payload, amount_total))
    THEN [resp |-> [status |-> 500, detail |-> "ValidationError"], order |-> orders,
          calls |-> <<"get_documents">>, line_items |-> <<>>]
    ELSE IF env.store = "insert raises"
    THEN [resp |-> [status |-> 500, detail |-> "StoreError"], order |-> orders,
          calls |-> <<"get_documents", "create_document">>, line_items |-> <<>>]
    ELSE AfterPersist(payload, env, by_id,
                      CreateDocument(orders, NewOrder(payload, amount_total)),
                      InsertedId(orders))

\* PriceAndPersist with the Order record created before the cart is priced.
PriceAndPersistEager(payload, env, products, orders) ==
    LET by_id == ById(GetDocuments(products))
        priced == PriceItems(payload.items, by_id, 0)
    IN  IF ~priced.found
        THEN [resp |-> [status |-> 404, detail |-> <<"Product not found: ", priced.product_id>>],
              order |-> CreateDocument(orders, NewOrder(payload, 0)),
              calls |-> <<"create_document", "get_documents">>, line_items |-> <<>>]
        ELSE PersistOrder(payload, env, by_id, priced.amount_total, orders)

\* The cart is priced against the catalog read; an unknown product aborts.
PriceAndPersist(payload, env, products, orders) ==
    LET by_id == ById(GetDocuments(products))
        priced == PriceItems(payload.items, by_id, 0)
    IN  IF ~priced.found
        THEN [resp |-> [status |-> 404, detail |-> <<"Product not found: ", priced.product_id>>],
              order |-> orders, calls |-> <<"get_documents">>, line_items |-> <<>>]
        ELSE PersistOrder(payload, env, by_id, priced.amount_total, orders)

EmptyCart(payload) == payload.items = <<>>

\* CheckoutRun with the catalog read before the cart is looked at.
CheckoutRunQueryFirst(payload, env, products, orders) ==
    IF env.store = "query raises"
    THEN [resp |-> [status |-> 500, detail |-> "StoreError"], order |-> orders,
          calls |-> <<"get_documents">>, line_items |-> <<>>]
    ELSE IF EmptyCart(payload)
    THEN [resp |-> [status |-> 400, detail |-> "No items provided"], order |-> orders,
          calls |-> <<"get_documents">>, line_items |-> <<>>]
    ELSE PriceAndPersist(payload, env, products, orders)

\* The whole handler: its response, the order collection it leaves and the
\* calls it made on the store and the provider, in order.
CheckoutRun(payload, env, products, orders) ==
    IF EmptyCart(payload)
    THEN [resp |-> [status |-> 400, detail |-> "No items provided"], order |-> orders,
          calls |-> <<>>, line_items |-> <<>>]
    ELSE IF env.store = "query raises"
    THEN [resp |-> [status |-> 500, detail |-> "StoreError"], order |-> orders,
          calls |-> <<"get_documents">>, line_items |-> <<>>]
    ELSE PriceAndPersist(payload, env, products, orders)

\* What the request meets: STRIPE_SECRET_KEY and, when it is set, whether
\* the provider's call, or the import of its library, raises; and which call on the store raises, if one
\* does (the request ends at the first that does).
CheckoutEnv ==
    { [stripe_key |-> k[1], stripe |-> k[2], store |-> f] :
        k \in {<<None, "unused">>, <<"sk_test", "ok">>, <<"sk_test", "raise">>,
               <<"sk_test", "import raises">>},
        f \in {"ok", "query raises", "insert raises"} }

\* One checkout request is followed per behaviour: the handler reads the
\* catalog only, never the order collection, so requests do not affect one
\* another.
create_checkout_session ==
    /\ session = <<>>
    /\ \E payload \in CheckoutRequest(product), env \in CheckoutEnv :
        LET run == CheckoutRun(payload, env, product, order)
        IN  /\ order' = run.order
            /\ session' = << [payload |-> payload, env |-> env, catalog |-> product,
                              before |-> order, resp |-> run.resp, calls |-> run.calls,
                              line_items |-> run.line_items] >>
    /\ UNCHANGED <<product, lead, sheet, listing, leadResp, worker, storeFault>>

(******************************** leads ************************************)
LeadIn ==
    [name : {"Ann"}, email : {"ann@example.com"}, phone : {None, "555-0100"},
     interest : {None}, source : {None, "website"}, notes : {None}]

\* The text of GOOGLE_SHEETS_SERVICE_ACCOUNT_JSON: a text is what it is
\* written in (JSON, base64, neither) and what that writing holds: for JSON
\* the document, for base64 the text encoded.
ServiceAccount == [form |-> "json", holds |-> [doc |-> "service account"]]
OtherJson == [form |-> "json", holds |-> [doc |-> "other"]]
Garbage == [form |-> "neither", holds |-> [doc |-> "none"]]
Unset == [form |-> "unset", holds |-> [doc |-> "none"]]    \* os.getenv gives None
Base64Of(text) == [form |-> "base64", holds |-> text]
CredentialTexts ==
    {ServiceAccount, OtherJson, Garbage,
     Base64Of(ServiceAccount), Base64Of(OtherJson), Base64Of(Garbage)}

\* json.loads: the document, or nothing (JSONDecodeError)
JsonLoads(text) == IF text.form = "json" THEN <<text.holds>> ELSE <<>>
\* base64.b64decode(...).decode("utf-8"): the text, or nothing (an error)
B64Decode(text) == IF text.form = "base64" THEN <<text.holds>> ELSE <<>>

\* info: the direct parse, else the parse of the base64-decoded text.
ParseCredential(text) ==
    IF JsonLoads(text) # <<>> THEN JsonLoads(text)
    ELSE IF B64Decode(text) = <<>> THEN <<>>
    ELSE JsonLoads(B64Decode(text)[1])

\* Credentials.from_service_account_info accepts a service account's document.
CredentialsFrom(info) == IF info.doc = "service account" THEN <<info>> ELSE <<>>

Or(value, default) == IF Truthy(value) THEN value ELSE default

SheetRow(l) ==
    << l.name, l.email, Or(l.phone, ""), Or(l.interest, ""), Or(l.source, "website"),
       Or(l.notes, "") >>

\* str(updates.get("updatedRange"))
UpdatedRange(env) == IF env.api = "ok" THEN env.range ELSE "None"

\* append_lead_to_google_sheets with an error of the credential's parse or of
\* the spreadsheet's call left to propagate.
AppendUnguarded(l, env, rows) ==
    IF ~Truthy(env.spreadsheet_id) \/ env.service_account_json = Unset
    THEN [range |-> None, raised |-> FALSE, sheet |-> rows]
    ELSE IF ~env.libs
    THEN [range |-> None, raised |-> FALSE, sheet |-> rows]
    ELSE IF ParseCredential(env.service_account_json) = <<>>
    THEN [range |-> None, raised |-> TRUE, sheet |-> rows]
    ELSE IF CredentialsFrom(ParseCredential(env.service_account_json)[1]) = <<>>
    THEN [range |-> None, raised |-> TRUE, sheet |-> rows]
    ELSE IF env.api = "raise"
    THEN [range |-> None, raised |-> TRUE, sheet |-> rows]
    ELSE [range |-> UpdatedRange(env), raised |-> FALSE, sheet |-> Append(rows, SheetRow(l))]

\* The range appended to, or None; whether it raised; the spreadsheet's rows.
append_lead_to_google_sheets(l, env, rows) ==
    IF ~Truthy(env.spreadsheet_id) \/ env.service_account_json = Unset
    THEN [range |-> None, raised |-> FALSE, sheet |-> rows]
    ELSE IF ~env.libs
    THEN [range |-> None, raised |-> FALSE, sheet |-> rows]
    ELSE IF ParseCredential(env.service_account_json) = <<>>
    THEN [range |-> None, raised |-> FALSE, sheet |-> rows]
    ELSE IF CredentialsFrom(ParseCredential(env.service_account_json)[1]) = <<>>
    THEN [range |-> None, raised |-> FALSE, sheet |-> rows]
    ELSE IF env.api = "raise"
    THEN [range |-> None, raised |-> FALSE, sheet |-> rows]
    ELSE [range |-> UpdatedRange(env), raised |-> FALSE, sheet |-> Append(rows, SheetRow(l))]

\* What the request meets: the two settings of the spreadsheet, whether the
\* Google libraries import, what the spreadsheet's call does, and whether the
\* store's insert raises.
SheetsConfigured ==
    { [spreadsheet_id |-> "sheet-1", service_account_json |-> c, libs |-> TRUE,
       api |-> a, range |-> "Leads!A2:F2"] :
        c \in CredentialTexts, a \in {"ok", "no range", "raise"} }
SheetsNotUsed ==
    { [spreadsheet_id |-> None, service_account_json |-> ServiceAccount, libs |-> TRUE,
       api |-> "ok", range |-> "Leads!A2:F2"],
      [spreadsheet_id |-> "sheet-1", service_account_json |-> Unset, libs |-> TRUE,
       api |-> "ok", range |-> "Leads!A2:F2"],
      [spreadsheet_id |-> None, service_account_json |-> Unset, libs |-> TRUE,
       api |-> "ok", range |-> "Leads!A2:F2"],
      [spreadsheet_id |-> "sheet-1", service_account_json |-> ServiceAccount, libs |-> FALSE,
       api |-> "ok", range |-> "Leads!A2:F2"] }
LeadEnv == SheetsConfigured \cup SheetsNotUsed

\* The handler, the insert having returned inserted_id.
LeadSynced(l, env, leads, rows) ==
    LET synced == append_lead_to_google_sheets(l, env, rows)
    IN  [lead |-> CreateDocument(leads, l),
         sheet |-> synced.sheet,
         resp |-> IF synced.raised THEN [status |-> 500, detail |-> "Internal Server Error"]
                  ELSE [status |-> 200,
                        body |-> [status |-> "ok", id |-> InsertedId(leads),
                                  google_range |-> synced.range]]]

LeadRun(l, env, store, leads, rows) ==
    IF store = "insert raises"
    THEN [lead |-> leads, sheet |-> rows,
          resp |-> [status |-> 500, detail |-> "Database error: StoreError"]]
    ELSE LeadSynced(l, env, leads, rows)

create_lead ==
    /\ Len(lead) < MaxLeads
    /\ \E l \in LeadIn, env \in LeadEnv, store \in {"ok", "insert raises"} :
        LET run == LeadRun(l, env, store, lead, sheet)
        IN  /\ lead' = run.lead
            /\ sheet' = run.sheet
            /\ leadResp' = << [lead |-> l, env |-> env, store |-> store, before |-> lead,
                               resp |-> run.resp] >>
    /\ UNCHANGED <<product, order, listing, session, worker, storeFault>>

Init ==
    /\ product = <<>>
    /\ order = <<>>
    /\ lead = <<>>
    /\ sheet = <<>>
    /\ listing = <<>>
    /\ session = <<>>
    /\ leadResp = <<>>
    /\ worker = [w \in Workers |-> [pc |-> "check", i |-> 1]]
    /\ storeFault = FALSE

\* The catalog and the checkout, one request at a time.
Next == list_products \/ create_checkout_session

Spec == Init /\ [][Next]_vars

\* GET /api/products requests running concurrently.
NextSeeder == \E w \in Workers : SeedCheck(w) \/ SeedInsert(w) \/ ListRead(w)

SpecSeeder == Init /\ [][NextSeeder]_vars

\* POST /api/leads, one request at a time.
NextLeads == create_lead

SpecLeads == Init /\ [][NextLeads]_vars

(***************************************************************************)
(* The checkout request handled, and what the claims say of it.            *)
(***************************************************************************)
Handled == session # <<>>
S == session[1]
Items == S.payload.items

CatalogIds(catalog) == {Str(catalog[i]["_id"]) : i \in DOMAIN catalog}
CatalogPrice(catalog, pid) ==
    (CHOOSE p \in Range(catalog) : Str(p["_id"]) = pid)["price_cents"]

AllResolve == \A i \in DOMAIN Items : Items[i].product_id \in CatalogIds(S.catalog)
SomeUnknown == \E i \in DOMAIN Items : Items[i].product_id \notin CatalogIds(S.catalog)
StoreWorked == S.env.store = "ok"

Clamped(q) == IF q < 1 THEN 1 ELSE q

RECURSIVE CartTotal(_, _)
CartTotal(items, catalog) ==
    IF items = <<>> THEN 0
    ELSE CatalogPrice(catalog, Head(items).product_id) * Clamped(Head(items).quantity)
         + CartTotal(Tail(items), catalog)

RECURSIVE ClampedQuantity(_)
ClampedQuantity(items) ==
    IF items = <<>> THEN 0
    ELSE Clamped(Head(items).quantity) + ClampedQuantity(Tail(items))

\* The request persisted one Order: the order collection is the one it
\* found, with one record more.
Persisted == Len(order) = Len(S.before) + 1 /\ SubSeq(order, 1, Len(S.before)) = S.before
TheOrder == order[Len(order)]
Called(fn) == \E i \in DOMAIN S.calls : S.calls[i] = fn

\* C1: for every cart (of at least one line item, the store working) whose
\* product ids all resolve, the request persists an Order whose
\* amount_total_cents is the sum of catalog price * max(1, quantity).
C1_TotalOfEveryValidCart ==
    (Handled /\ Items # <<>> /\ AllResolve /\ StoreWorked)
        => (Persisted /\ TheOrder["amount_total_cents"] = CartTotal(Items, S.catalog))

\* C2: a cart with a line item whose product id is not in the catalog, at
\* whatever position, is answered 404 (500 when the catalog cannot be read
\* at all) and leaves the order collection as it was.
C2_UnknownProductAborts ==
    (Handled /\ SomeUnknown)
        => /\ order = S.before
           /\ S.resp.status = IF S.env.store = "query raises" THEN 500 ELSE 404
           /\ ~Called("create_document")

C2_Witness ==
    /\ Handled /\ Len(Items) = 2
    /\ Items[1].product_id \in CatalogIds(S.catalog)
    /\ Items[2].product_id \notin CatalogIds(S.catalog)
    /\ S.resp.status = 404

\* C3: a quantity below 1 is not rejected: every cart whose product ids all
\* resolve completes (an Order is persisted, checkout_url and order_id are
\* returned), whatever its quantities.
C3_AnyQuantityCompletes ==
    (Handled /\ Items # <<>> /\ AllResolve /\ StoreWorked)
        => /\ S.resp.status = 200
           /\ {"checkout_url", "order_id"} \subseteq DOMAIN S.resp
           /\ Persisted

\* C4: every Order persisted has status "created", the first line item's
\* product_id and quantity the sum of max(1, quantity) over the line items.
C4_OrderFields ==
    (Handled /\ Persisted)
        => /\ TheOrder["status"] = "created"
           /\ TheOrder["product_id"] = Items[1].product_id
           /\ TheOrder["quantity"] = ClampedQuantity(Items)

\* C5: once the Order is persisted the request does not fail; without a
\* provider key, or when the provider's call raises, the response is the mock
\* URL of this request's Order with a note, and the Order stays "created".
C5_FallbackAfterPersist ==
    (Handled /\ Persisted)
        => /\ S.resp.status = 200
           /\ TheOrder["status"] = "created"
           /\ (~Truthy(S.env.stripe_key) \/ S.env.stripe \in {"raise", "import raises"})
                => /\ S.resp.checkout_url = <<"https://checkout.mock/", Str(TheOrder["_id"])>>
                   /\ S.resp.order_id = Str(TheOrder["_id"])
                   /\ "note" \in DOMAIN S.resp
                   /\ S.resp.note # None

C5_Witness ==
    /\ Handled /\ Persisted
    /\ Truthy(S.env.stripe_key) /\ S.env.stripe = "raise"
    /\ Called("stripe.checkout.Session.create")
    /\ S.resp.checkout_url[1] = "https://checkout.mock/"

\* C6: an empty cart is answered 400 before any call on the store or the
\* provider, and no Order is created.
C6_EmptyCartRejected ==
    (Handled /\ Items = <<>>)
        => /\ S.resp.status = 400
           /\ S.calls = <<>>
           /\ order = S.before

C6_Witness == Handled /\ Items = <<>> /\ S.catalog # <<>> /\ S.resp.status = 400

\* C10: the provider is called only after the Order is persisted; when the
\* store fails while persisting it the request ends in a server error with no
\* provider call and no checkout_url or order_id; and a successful response
\* carries the id of the one Order the request created.
C10_ProviderAfterPersist ==
    Handled
        => /\ Called("stripe.checkout.Session.create")
                => /\ Persisted
                   /\ \E i, j \in DOMAIN S.calls :
                        /\ i < j
                        /\ S.calls[i] = "create_document"
                        /\ S.calls[j] = "stripe.checkout.Session.create"
           /\ (S.env.store = "insert raises" /\ Called("create_document"))
                => /\ S.resp.status = 500
                   /\ order = S.before
                   /\ ~Called("stripe.checkout.Session.create")
                   /\ DOMAIN S.resp \cap {"checkout_url", "order_id"} = {}
           /\ S.resp.status = 200
                => /\ Persisted
                   /\ S.resp.order_id = Str(TheOrder["_id"])
                   /\ \A i \in DOMAIN S.before : Str(S.before[i]["_id"]) # S.resp.order_id

C10_Witness ==
    /\ Handled
    /\ S.env.store = "insert raises" /\ Called("create_document")
    /\ Truthy(S.env.stripe_key)
    /\ S.resp.status = 500

(***************************************************************************)
(* The seeder.                                                             *)
(***************************************************************************)
Count(catalog, title) == Cardinality({i \in DOMAIN catalog : catalog[i]["title"] = title})
Titles == {samples[i].title : i \in DOMAIN samples}

\* C8: a call of ensure_sample_products on a catalog that holds a product
\* inserts nothing, so calls that follow one another leave no sample product
\* twice; and a call whose existence check raises inserts nothing and raises
\* nothing.
C8_SeederIdempotent ==
    listing # <<>>
        => /\ listing[1].before # <<>> => product = listing[1].before
           /\ listing[1].existing = "error"
                => (product = listing[1].before /\ ~listing[1].raised)
           /\ \A t \in Titles : Count(product, t) <= 1

C8_Witness ==
    /\ listing # <<>>
    /\ listing[1].existing = "found"
    /\ Len(listing[1].before) = Len(samples)
    /\ product = listing[1].before

\* C9: from an empty catalog, after any number of calls of the seeder,
\* concurrent ones included (no seeding loop under way, no insert having
\* raised), the catalog holds each of the three sample products exactly once.
C9_SeededExactlyOnce ==
    (product # <<>> /\ ~storeFault /\ \A w \in Workers : worker[w].pc # "insert")
        => \A t \in Titles : Count(product, t) = 1

(***************************************************************************)
(* The lead intake.                                                        *)
(***************************************************************************)
L == leadResp[1]

\* The credential is valid JSON, or the base64 encoding of valid JSON.
ValidCredential(text) ==
    \/ text.form = "json"
    \/ text.form = "base64" /\ text.holds.form = "json"

SheetsUnconfigured(env) == env.spreadsheet_id = None \/ env.service_account_json = Unset

\* C7: a lead whose insert succeeds is persisted as exactly one Lead record
\* and answered status "ok" with a non-null id, whatever the spreadsheet's
\* configuration and sync do; google_range is null when the spreadsheet is
\* not configured, the credential is neither valid JSON nor base64 of valid
\* JSON, or the spreadsheet's call fails.
C7_LeadPersistedWhateverTheSheet ==
    (leadResp # <<>> /\ L.store = "ok")
        => /\ Len(lead) = Len(L.before) + 1
           /\ SubSeq(lead, 1, Len(L.before)) = L.before
           /\ \A k \in DOMAIN L.lead : lead[Len(lead)][k] = L.lead[k]
           /\ L.resp.status = 200
           /\ L.resp.body.status = "ok"
           /\ L.resp.body.id = Str(lead[Len(lead)]["_id"])        \* an id, not None
           /\ ( \/ SheetsUnconfigured(L.env)
                \/ ~ValidCredential(L.env.service_account_json)
                \/ L.env.api = "raise" )
                => L.resp.body.google_range = None

C7_Witness ==
    /\ leadResp # <<>> /\ L.store = "ok"
    /\ L.before # <<>>
    /\ L.env.spreadsheet_id = "sheet-1" /\ L.env.libs
    /\ L.env.service_account_json = Base64Of(Garbage)
    /\ L.resp.status = 200
    /\ L.resp.body.google_range = None
====
